---- MODULE Spec2Model ----
(***************************************************************************)
(* Duplicate detection of the spreadsheet adapter (processDuplicates).     *)
(*                                                                         *)
(* A table is the array of arrays that sheet_to_json(sheet, {header: 1})   *)
(* hands to the scan.  A cell is a missing cell (an array hole, read as    *)
(* undefined), a number or a string; a string is a sequence of one-char    *)
(* strings so that trim, toLowerCase, String and JSON.stringify are        *)
(* computed character by character.  Row indices are 0-based as in the     *)
(* source; rows[i + 1] is the row the source calls rows[i].                *)
(***************************************************************************)
EXTENDS Integers, Sequences, FiniteSets, TLC

\* ------------------------------------------------------------------ bounds
MaxRows == 3
\* string cells of the sheets of the requests followed step by step, calendar
\* dates
MaxCells == 3
MaxDays == 2

\* the clients whose requests are followed step by step, concurrently
Clients == {"first", "second"}

\* api/process.js lines 18-19
DAILY_LIMIT == 80
WARNING_AT == 60

\* ------------------------------------------------------------- cell values
Hole == [t |-> "z"]
Num(n) == [t |-> "n", n |-> n]
Str(s) == [t |-> "s", s |-> s]

IsHole(c) == c.t = "z"
IsNum(c) == c.t = "n"
IsStr(c) == c.t = "s"

\* ---------------------------------------------------- JavaScript primitives
WhiteSpace == {" ", "\t", "\n", "\r"}

Uppers == <<"A", "B", "C", "D", "E", "F", "G", "H", "I", "J", "K", "L", "M",
            "N", "O", "P", "Q", "R", "S", "T", "U", "V", "W", "X", "Y", "Z">>
Lowers == <<"a", "b", "c", "d", "e", "f", "g", "h", "i", "j", "k", "l", "m",
            "n", "o", "p", "q", "r", "s", "t", "u", "v", "w", "x", "y", "z">>

Digits == <<"0", "1", "2", "3", "4", "5", "6", "7", "8", "9">>

\* the lower-case letter of each upper-case letter
LowerOf ==
  [c \in {Uppers[k] : k \in 1..Len(Uppers)} |->
     Lowers[CHOOSE k \in 1..Len(Uppers) : Uppers[k] = c]]

\* String.prototype.toLowerCase on one character
lowerChar(c) == IF c \in DOMAIN LowerOf THEN LowerOf[c] ELSE c

\* String.prototype.toLowerCase
toLowerCase(s) == [k \in 1..Len(s) |-> lowerChar(s[k])]

RECURSIVE trimStart(_)
trimStart(s) ==
  IF s # <<>> /\ Head(s) \in WhiteSpace THEN trimStart(Tail(s)) ELSE s

RECURSIVE trimEnd(_)
trimEnd(s) ==
  IF s # <<>> /\ s[Len(s)] \in WhiteSpace
  THEN trimEnd(SubSeq(s, 1, Len(s) - 1))
  ELSE s

\* String.prototype.trim
trim(s) == trimEnd(trimStart(s))

\* Number -> decimal text, for the non-negative integers of the model
RECURSIVE numberToString(_)
numberToString(n) ==
  IF n < 10 THEN <<Digits[n + 1]>>
  ELSE numberToString(n \div 10) \o <<Digits[(n % 10) + 1]>>

\* row[0]: an index past the end, or a hole, reads as undefined
firstCell(row) == IF Len(row) >= 1 THEN row[1] ELSE Hole

\* JavaScript truthiness of a cell value: undefined, 0 and "" are falsy
Truthy(c) ==
  CASE IsHole(c) -> FALSE
    [] IsNum(c) -> c.n # 0
    [] IsStr(c) -> c.s # <<>>

\* String(v || '')
stringOrEmpty(c) ==
  IF ~Truthy(c) THEN <<>>
  ELSE IF IsNum(c) THEN numberToString(c.n)
  ELSE c.s

\* JSON.stringify of one character inside a string literal
escapeCharRaw(c) == <<c>>
escapeChar(c) ==
  CASE c = "\"" -> <<"\\", "\"">>
    [] c = "\\" -> <<"\\", "\\">>
    [] c = "\n" -> <<"\\", "n">>
    [] c = "\t" -> <<"\\", "t">>
    [] c = "\r" -> <<"\\", "r">>
    [] OTHER -> <<c>>

RECURSIVE escapeString(_)
escapeString(s) ==
  IF s = <<>> THEN <<>> ELSE escapeChar(Head(s)) \o escapeString(Tail(s))

\* JSON.stringify of an array element: a hole serialises as null
stringifyCell(c) ==
  CASE IsHole(c) -> <<"n", "u", "l", "l">>
    [] IsNum(c) -> numberToString(c.n)
    [] IsStr(c) -> <<"\"">> \o escapeString(c.s) \o <<"\"">>

RECURSIVE joinCells(_)
joinCells(row) ==
  IF row = <<>> THEN <<>>
  ELSE IF Len(row) = 1 THEN stringifyCell(row[1])
  ELSE stringifyCell(row[1]) \o <<",">> \o joinCells(Tail(row))

\* JSON.stringify(row)
JSONstringify(row) == <<"[">> \o joinCells(row) \o <<"]">>

\* ------------------------------------------------------- options and tables
\* DuplicateOptions.criteria as the UI sets it ('row', 'col1'), and a value
\* the scan does not name
Criteria == {"row", "col1", "other"}
\* DuplicateOptions.mode as the UI sets it, and a value the code does not name
Modes == {"remove", "highlight", "other"}

A1 == Str(<<"a">>)
B1 == Str(<<"b">>)

\* Rows a decoded sheet can hold: a blank row, strings that differ in case and
\* surrounding whitespace, the number 0, a number and its text in either
\* order, a whitespace-only and an empty string, a missing first cell, and a
\* string holding the characters that separate two cells.
SampleRows ==
  { <<>>,
    <<A1>>,
    <<Str(<<" ", "A", "\t">>)>>,
    <<Num(0)>>,
    <<Str(<<" ">>)>>,
    <<Num(1), Str(<<"1">>)>>,
    <<Str(<<"1">>), Num(1)>>,
    <<Hole, A1>>,
    <<Str(<<>>), A1>>,
    <<A1, B1>>,
    <<Str(<<"a", "\"", ",", "\"", "b">>)>> }

RECURSIVE SeqsUpTo(_, _)
SeqsUpTo(S, n) ==
  IF n = 0 THEN {<<>>}
  ELSE LET shorter == SeqsUpTo(S, n - 1)
       IN shorter \cup {Append(t, r) : t \in {u \in shorter : Len(u) = n - 1}, r \in S}

SampleTables == SeqsUpTo(SampleRows, MaxRows)

\* The six-row table of the specification's scenarios
ExampleTable ==
  << <<Str(<<"N", "a", "m", "e">>), Str(<<"Q", "t", "y">>)>>,
     <<Str(<<"A">>), Num(1)>>,
     <<Str(<<"B">>), Num(2)>>,
     <<Str(<<"A">>), Num(1)>>,
     <<Str(<<"C">>), Num(3)>>,
     <<Str(<<"B">>), Num(9)>> >>

RECURSIVE SubTables(_)
SubTables(t) ==
  IF t = <<>> THEN {<<>>}
  ELSE LET rest == SubTables(Tail(t))
       IN rest \cup {<<Head(t)>> \o u : u \in rest}

\* The example and every table obtained from it by deleting rows
ExampleTables == SubTables(ExampleTable)

Tables == SampleTables \cup ExampleTables

\* ---------------------------------------------------------------- the scan
\* line 112 with the two arms of the conditional exchanged
keyOfArmsExchanged(row, opts) ==
  IF opts.criteria = "row" THEN toLowerCase(trim(stringOrEmpty(firstCell(row))))
  ELSE JSONstringify(row)

\* line 112: options.criteria === 'row' ? JSON.stringify(row)
\*                                     : String(row[0] || '').trim().toLowerCase()
keyOf(row, opts) ==
  IF opts.criteria = "row" THEN JSONstringify(row)
  ELSE toLowerCase(trim(stringOrEmpty(firstCell(row))))

\* line 113 without the test for the blank row's key
skipKeyEmptyOnly(key) == key = <<>>

\* line 113: key === "" || key === "[]"
skipKey(key) == key = <<>> \/ key = <<"[", "]">>

\* line 121 testing for the other mode: options.mode !== 'highlight'
removeBranchUnlessHighlight(opts) == opts.mode # "highlight"

\* line 121: options.mode === 'remove'
removeBranch(opts) == opts.mode = "remove"

\* line 122 with the negation lost: rows.filter((_, i) => duplicatesIndices.has(i))
RECURSIVE filterRowsKeepDups(_, _, _)
filterRowsKeepDups(rs, dups, i) ==
  IF rs = <<>> THEN <<>>
  ELSE IF i \notin dups THEN filterRowsKeepDups(Tail(rs), dups, i + 1)
  ELSE <<Head(rs)>> \o filterRowsKeepDups(Tail(rs), dups, i + 1)

\* line 122 with the index one off: !duplicatesIndices.has(i + 1)
RECURSIVE filterRowsOffByOne(_, _, _)
filterRowsOffByOne(rs, dups, i) ==
  IF rs = <<>> THEN <<>>
  ELSE IF (i + 1) \in dups THEN filterRowsOffByOne(Tail(rs), dups, i + 1)
  ELSE <<Head(rs)>> \o filterRowsOffByOne(Tail(rs), dups, i + 1)

\* line 122 on a copy of the rows that always starts with a header row
RECURSIVE filterRowsPadHeader(_, _, _)
filterRowsPadHeader(rs, dups, i) ==
  IF rs = <<>> THEN (IF i = 0 THEN << <<>> >> ELSE <<>>)
  ELSE IF i \in dups THEN filterRowsPadHeader(Tail(rs), dups, i + 1)
  ELSE <<Head(rs)>> \o filterRowsPadHeader(Tail(rs), dups, i + 1)

\* line 122: rows.filter((_, i) => !duplicatesIndices.has(i))
RECURSIVE filterRows(_, _, _)
filterRows(rs, dups, i) ==
  IF rs = <<>> THEN <<>>
  ELSE IF i \in dups THEN filterRows(Tail(rs), dups, i + 1)
  ELSE <<Head(rs)>> \o filterRows(Tail(rs), dups, i + 1)

\* lines 131-146: one styled cell; Array.prototype.map leaves a hole a hole
styleCell(c, isDuplicate, isHeader) ==
  IF IsHole(c) THEN c
  ELSE [v |-> c, t |-> IF IsNum(c) THEN "n" ELSE "s",
        s |-> IF isDuplicate /\ ~isHeader THEN "FFFF00" ELSE "none"]

\* lines 126-148 testing the 1-based row number: duplicatesIndices.has(i + 1)
styleRowsOneBased(rs, dups) ==
  [k \in 1..Len(rs) |->
     [c \in 1..Len(rs[k]) |-> styleCell(rs[k][c], k \in dups, k - 1 = 0)]]

\* lines 126-148: rows.map((row, i) => row.map(cellValue => ...))
styleRows(rs, dups) ==
  [k \in 1..Len(rs) |->
     [c \in 1..Len(rs[k]) |-> styleCell(rs[k][c], (k - 1) \in dups, k - 1 = 0)]]

\* ------------------------------------------- state of the other components
\* api/process.js: the wall-clock date, the module-level usage counter and
\* alert flag, the requests in flight, the alert mails sent per date
VARIABLES today, dailyUsage, alertSentToday, requests, alerts

apiVars == <<today, dailyUsage, alertSentToday, requests, alerts>>

\* Workspace: the dupOptions state, the dupOptions the rendered handlers
\* closed over, the selected tool and files, the processing status, the
\* position of processFile and the options processDuplicates was called with
VARIABLES dupOptions, rendered, tool, files, processing, uiPc, lastClick,
          calledWith

uiVars == <<dupOptions, rendered, tool, files, processing, uiPc, lastClick,
            calledWith>>

\* the server module just loaded: lines 11-16
ApiLoaded ==
  /\ today = 1
  /\ dailyUsage = [date |-> 1, count |-> 0]
  /\ alertSentToday = FALSE
  /\ requests = <<>>
  /\ alerts = [d \in 1..MaxDays |-> 0]

\* the Workspace just mounted on the duplicate remover: lines 17-22
UiMounted ==
  /\ dupOptions = [criteria |-> "row", mode |-> "remove"]
  /\ rendered = [criteria |-> "row", mode |-> "remove"]
  /\ tool = "duplicate-remover"
  /\ files = 0
  /\ processing = "idle"
  /\ uiPc = "idle"
  /\ lastClick = "none"
  /\ calledWith = "none"

VARIABLES file, options, rows, seen, duplicatesIndices, idx, pc, finalSheet,
          sheetKind, error, run, firstSheet

dupVars == <<file, options, rows, seen, duplicatesIndices, idx, pc, finalSheet,
             sheetKind, error, run, firstSheet>>

vars == <<dupVars, apiVars, uiVars>>

Init ==
  /\ file \in Tables
  /\ options \in [criteria : Criteria, mode : Modes]
  /\ rows = <<>>
  /\ seen = {}
  /\ duplicatesIndices = {}
  /\ idx = 0
  /\ pc = "start"
  /\ finalSheet = <<>>
  /\ sheetKind = "none"
  /\ error = "none"
  /\ run = 1
  /\ firstSheet = <<>>
  /\ ApiLoaded
  /\ UiMounted

\* lines 102-109: decode the first sheet, start with empty sets; the second
\* run decodes the sheet the first run produced
ReadRows ==
  /\ pc = "start"
  /\ rows' = IF run = 1 THEN file ELSE firstSheet
  /\ seen' = {}
  /\ duplicatesIndices' = {}
  /\ idx' = 0
  /\ pc' = "scan"
  /\ UNCHANGED <<file, options, finalSheet, sheetKind, error, run, firstSheet>>
  /\ UNCHANGED <<apiVars, uiVars>>

\* lines 111-116 with the else lost: the key is added before it is looked up
ScanRowAddFirst ==
  /\ pc = "scan"
  /\ idx < Len(rows)
  /\ LET key == keyOf(rows[idx + 1], options)
     IN IF skipKey(key)
        THEN UNCHANGED <<seen, duplicatesIndices>>
        ELSE /\ seen' = seen \cup {key}
             /\ duplicatesIndices' = duplicatesIndices \cup {idx}
  /\ idx' = idx + 1
  /\ UNCHANGED <<file, options, rows, pc, finalSheet, sheetKind, error, run,
                 firstSheet>>
  /\ UNCHANGED <<apiVars, uiVars>>

\* lines 111-116 with the header row left out of the scan: if (i === 0) return
ScanRowSkipHeader ==
  /\ pc = "scan"
  /\ idx < Len(rows)
  /\ LET key == keyOf(rows[idx + 1], options)
     IN IF idx = 0 \/ skipKey(key)
        THEN UNCHANGED <<seen, duplicatesIndices>>
        ELSE IF key \in seen
             THEN /\ duplicatesIndices' = duplicatesIndices \cup {idx}
                  /\ UNCHANGED seen
             ELSE /\ seen' = seen \cup {key}
                  /\ UNCHANGED duplicatesIndices
  /\ idx' = idx + 1
  /\ UNCHANGED <<file, options, rows, pc, finalSheet, sheetKind, error, run,
                 firstSheet>>
  /\ UNCHANGED <<apiVars, uiVars>>

\* lines 111-116: one iteration of rows.forEach
ScanRow ==
  /\ pc = "scan"
  /\ idx < Len(rows)
  /\ LET key == keyOf(rows[idx + 1], options)
     IN IF skipKey(key)
        THEN UNCHANGED <<seen, duplicatesIndices>>
        ELSE IF key \in seen
             THEN /\ duplicatesIndices' = duplicatesIndices \cup {idx}
                  /\ UNCHANGED seen
             ELSE /\ seen' = seen \cup {key}
                  /\ UNCHANGED duplicatesIndices
  /\ idx' = idx + 1
  /\ UNCHANGED <<file, options, rows, pc, finalSheet, sheetKind, error, run,
                 firstSheet>>
  /\ UNCHANGED <<apiVars, uiVars>>

\* lines 121-123: the remove branch
BuildRemoved ==
  /\ pc = "scan"
  /\ idx = Len(rows)
  /\ removeBranch(options)
  /\ finalSheet' = filterRows(rows, duplicatesIndices, 0)
  /\ sheetKind' = "values"
  /\ pc' = "done"
  /\ UNCHANGED <<file, options, rows, seen, duplicatesIndices, idx, error, run,
                 firstSheet>>
  /\ UNCHANGED <<apiVars, uiVars>>

\* lines 124-150: the else branch, styled cells
BuildStyled ==
  /\ pc = "scan"
  /\ idx = Len(rows)
  /\ ~removeBranch(options)
  /\ finalSheet' = styleRows(rows, duplicatesIndices)
  /\ sheetKind' = "styled"
  /\ pc' = "done"
  /\ UNCHANGED <<file, options, rows, seen, duplicatesIndices, idx, error, run,
                 firstSheet>>
  /\ UNCHANGED <<apiVars, uiVars>>

\* The rows a remove run produced are submitted again with the same options
Resubmit ==
  /\ pc = "done"
  /\ run = 1
  /\ sheetKind = "values"
  /\ firstSheet' = finalSheet
  /\ run' = 2
  /\ pc' = "start"
  /\ UNCHANGED <<file, options, rows, seen, duplicatesIndices, idx, finalSheet,
                 sheetKind, error>>
  /\ UNCHANGED <<apiVars, uiVars>>

Next ==
  \/ ReadRows
  \/ ScanRow
  \/ BuildRemoved
  \/ BuildStyled
  \/ Resubmit

Spec == Init /\ [][Next]_vars

TypeOK ==
  /\ pc \in {"start", "scan", "done"}
  /\ idx \in 0..Len(rows)
  /\ duplicatesIndices \subseteq 0..(Len(rows) - 1)
  /\ run \in {1, 2}
  /\ error \in {"none", "InvalidPolicy"}

\* ---------------------------------------------------- vocabulary of the claims
\* the forEach of lines 111-116 has visited every row
ScanDone == pc \in {"scan", "done"} /\ idx = Len(rows)

RowIndices == 0..(Len(rows) - 1)

\* the keys line 112 gives the rows of a table, by 0-based index
KeysOf(rs) == [i \in 0..(Len(rs) - 1) |-> keyOf(rs[i + 1], options)]

\* a cell that holds nothing: missing, or a string of whitespace only
BlankCell(c) == IsHole(c) \/ (IsStr(c) /\ \A k \in 1..Len(c.s) : c.s[k] \in WhiteSpace)

\* the row at index i has an empty key: no cell at all under the full-row
\* criterion, no key text under the first-column criterion
EmptyKeyAt(K, i) ==
  IF options.criteria = "row" THEN rows[i + 1] = <<>> ELSE K[i] = <<>>

\* the rows that repeat the non-empty key of a row at a lower index
LaterRepeats(K) ==
  {i \in RowIndices : ~EmptyKeyAt(K, i) /\ \E j \in 0..(i - 1) : K[j] = K[i]}

\* the 0-based indices outside the duplicate-index-set, in increasing order
KeptIndex(k) ==
  CHOOSE i \in RowIndices \ duplicatesIndices :
    Cardinality({j \in RowIndices \ duplicatesIndices : j < i}) = k - 1

\* the rows of a styled sheet that carry the highlight marker
MarkedRows(sheet) ==
  {i \in 0..(Len(sheet) - 1) :
     \E c \in 1..Len(sheet[i + 1]) :
       ~IsHole(sheet[i + 1][c]) /\ sheet[i + 1][c].s = "FFFF00"}

DuplicateIffLaterRepeat(K) ==
  /\ duplicatesIndices = LaterRepeats(K)
  /\ 0 \notin duplicatesIndices
  /\ \A i \in duplicatesIndices : \E j \in 0..(i - 1) :
       j \notin duplicatesIndices /\ K[j] = K[i]

C2_RemoveKeepsTheOthersInOrder ==
  (pc = "done" /\ options.mode = "remove") =>
    /\ sheetKind = "values"
    /\ Len(finalSheet) = Len(rows) - Cardinality(duplicatesIndices)
    /\ \A k \in 1..Len(finalSheet) : finalSheet[k] = rows[KeptIndex(k) + 1]

C2_Witness ==
  /\ pc = "done"
  /\ options.mode = "remove"
  /\ Len(rows) = 3
  /\ duplicatesIndices = {1}
  /\ finalSheet = <<rows[1], rows[3]>>
  /\ rows[1] # rows[3]

\* the styled sheet holds the values of the rows, cell by cell
SameValues(sheet) ==
  /\ Len(sheet) = Len(rows)
  /\ \A k \in 1..Len(rows) :
       /\ Len(sheet[k]) = Len(rows[k])
       /\ \A c \in 1..Len(rows[k]) :
            IF IsHole(rows[k][c]) THEN IsHole(sheet[k][c])
            ELSE ~IsHole(sheet[k][c]) /\ sheet[k][c].v = rows[k][c]

\* C3: with mode 'highlight' the output has as many rows as the input, every
\* cell value is unchanged and in place, and the rows carrying the marker are
\* exactly the duplicate-index-set without index 0; on the six-row example
\* with the first-column criterion these are rows 3 and 5.
C3_HighlightMarksTheDuplicates ==
  (pc = "done" /\ options.mode = "highlight") =>
    /\ sheetKind = "styled"
    /\ SameValues(finalSheet)
    /\ MarkedRows(finalSheet) = duplicatesIndices \ {0}
    /\ MarkedRows(finalSheet) = LaterRepeats(KeysOf(rows)) \ {0}
    /\ (rows = ExampleTable /\ options.criteria = "col1") =>
         MarkedRows(finalSheet) = {3, 5} /\ Len(finalSheet) = 6

C3_Witness ==
  /\ pc = "done"
  /\ options.mode = "highlight"
  /\ options.criteria = "col1"
  /\ rows = ExampleTable
  /\ MarkedRows(finalSheet) = {3, 5}

\* each first occurrence of a key among the rows is a row of the output
FirstOccurrencesKept(K) ==
  \A i \in RowIndices :
    (\A j \in 0..(i - 1) : K[j] # K[i]) =>
      /\ i \notin duplicatesIndices
      /\ \E k \in 1..Len(finalSheet) : finalSheet[k] = rows[i + 1]

NoNonEmptyOutputKeyRepeats(out) ==
  \A k \in DOMAIN out :
    \/ out[k] = <<>>
    \/ options.criteria = "row" /\ finalSheet[k + 1] = <<>>
    \/ \A m \in 0..(k - 1) : out[m] # out[k]

C5_RemoveIsIdempotent ==
  (run = 2 /\ pc = "done") =>
    /\ rows = firstSheet
    /\ duplicatesIndices = {}
    /\ finalSheet = firstSheet

C5_Witness ==
  /\ run = 2
  /\ pc = "done"
  /\ Len(file) = 3
  /\ Len(firstSheet) = 2
  /\ finalSheet = firstSheet
  /\ options.criteria = "col1"
  /\ firstSheet[1] = <<>>
  /\ firstSheet[2] = <<A1>>

EmptyKeyNeverDuplicate(K) ==
  /\ \A i \in RowIndices :
       (\/ EmptyKeyAt(K, i)
        \/ options.criteria # "row" /\ BlankCell(firstCell(rows[i + 1])))
         => i \notin duplicatesIndices /\ (i < idx => K[i] \notin seen)
  /\ (options.criteria # "row" /\ \A i \in RowIndices : BlankCell(firstCell(rows[i + 1])))
       => duplicatesIndices = {} /\ seen = {}

\* C6: a row with an empty key (no cell under the full-row criterion; a
\* missing, empty or whitespace-only first cell under the first-column
\* criterion) is never in the duplicate-index-set and its key is never in the
\* seen-set; a table whose first cells are all empty has no duplicate under
\* the first-column criterion.
C6_EmptyKeyNeverDuplicate ==
  /\ <<>> \notin seen
  /\ <<"[", "]">> \notin seen
  /\ (ScanDone /\ pc = "scan") => EmptyKeyNeverDuplicate(KeysOf(rows))

C6_Witness ==
  /\ ScanDone
  /\ Len(rows) = 3
  /\ duplicatesIndices = {}
  /\ seen = {}
  /\ \/ options.criteria = "row" /\ \A i \in RowIndices : rows[i + 1] = <<>>
     \/ /\ options.criteria = "col1"
        /\ rows[1] = <<Hole, A1>>
        /\ rows[2] = <<Str(<<" ">>)>>
        /\ rows[3] = <<Hole, A1>>

Recognized == options.criteria \in {"row", "col1"} /\ options.mode \in {"remove", "highlight"}

\* the duplicate-index-set the first-column key gives
FirstColumnRepeats(K) ==
  {i \in RowIndices : K[i] # <<>> /\ \E j \in 0..(i - 1) : K[j] = K[i]}

FirstColumnKeys ==
  [i \in RowIndices |-> keyOf(rows[i + 1], [options EXCEPT !.criteria = "col1"])]

C8_EmptyTableEmptyOutput ==
  (pc = "done" /\ rows = <<>>) =>
    /\ sheetKind # "none"
    /\ finalSheet = <<>>
    /\ error = "none"
    /\ duplicatesIndices = {}
    /\ seen = {}

C8_Witness ==
  /\ pc = "done"
  /\ run = 1
  /\ file = <<>>
  /\ rows = <<>>
  /\ finalSheet = <<>>
  /\ options.mode = "remove"

\* the text of a first cell: a number in decimal, a string as it is
CellText(c) == IF IsNum(c) THEN numberToString(c.n) ELSE c.s

\* the first cell of the row at index i holds a string or a number
FilledFirst(i) == ~BlankCell(firstCell(rows[i + 1]))

\* the first cells' values, trimmed and case-folded
FoldedFirsts ==
  [i \in RowIndices |-> toLowerCase(trim(CellText(firstCell(rows[i + 1]))))]

FirstColumnKeyIsFoldedValue(K, F) ==
  \A j \in RowIndices : FilledFirst(j) =>
    /\ K[j] = F[j]
    /\ \A i \in 0..(j - 1) : FilledFirst(i) =>
         /\ (K[i] = K[j]) <=> (F[i] = F[j])
         /\ F[i] = F[j] => j \in duplicatesIndices

\* C9: under the first-column criterion the key of a row with a non-empty
\* first cell (a string or a number, 0 included) is that value trimmed and
\* case-folded; two such rows have the same key iff these values are equal,
\* and the later one is then in the duplicate-index-set.
C9_FirstColumnKeyIsFoldedValue ==
  (ScanDone /\ options.criteria = "col1") =>
    FirstColumnKeyIsFoldedValue(KeysOf(rows), FoldedFirsts)

FullRowKeyIsTheRow(K) ==
  /\ \A i, j \in RowIndices : (K[i] = K[j]) <=> (rows[i + 1] = rows[j + 1])
  /\ duplicatesIndices =
       {j \in RowIndices :
          rows[j + 1] # <<>> /\ \E i \in 0..(j - 1) : rows[i + 1] = rows[j + 1]}

\* C10: under the full-row criterion two rows have the same key iff they
\* hold the same cell values in the same order, so a row is in the
\* duplicate-index-set only if an equal row precedes it.
C10_FullRowKeyIsTheRow ==
  (ScanDone /\ pc = "scan" /\ options.criteria = "row") =>
    FullRowKeyIsTheRow(KeysOf(rows))

C10_Witness ==
  /\ ScanDone
  /\ pc = "scan"
  /\ options.criteria = "row"
  /\ rows = ExampleTable
  /\ duplicatesIndices = {3}
  /\ rows[3][1] = rows[6][1]
  /\ 5 \notin duplicatesIndices

\* the output the scenario names: the example without its rows 3 and 5
ExampleClaimedOutput ==
  <<ExampleTable[1], ExampleTable[2], ExampleTable[3], ExampleTable[5]>>

\* the example without its row 3, the one row equal to an earlier row
ExampleFullRowOutput ==
  <<ExampleTable[1], ExampleTable[2], ExampleTable[3], ExampleTable[5],
    ExampleTable[6]>>

ExampleFullRowRemove ==
  /\ pc = "done"
  /\ run = 1
  /\ rows = ExampleTable
  /\ options.criteria = "row"
  /\ options.mode = "remove"

\* C11 as claimed: the example with the full-row criterion and mode 'remove'
\* gives [["Name","Qty"],["A",1],["B",2],["C",3]].
C11_Claimed_ExampleOutput ==
  ExampleFullRowRemove => finalSheet = ExampleClaimedOutput

\* C11: the example with the full-row criterion and mode 'remove' gives
\* [["Name","Qty"],["A",1],["B",2],["C",3],["B",9]]: only the second ["A",1]
\* is removed, ["B",9] differs from ["B",2] and stays.
C11_ExampleOutputKeepsB9 ==
  ExampleFullRowRemove =>
    /\ duplicatesIndices = {3}
    /\ finalSheet = ExampleFullRowOutput

C11_Witness ==
  /\ ExampleFullRowRemove
  /\ Len(finalSheet) = 5
  /\ finalSheet[5] = <<Str(<<"B">>), Num(9)>>

\* a missing cell read as an empty cell
AsEmpty(c) == IF IsHole(c) THEN Str(<<>>) ELSE c

\* a row with its missing cells read as empty cells and its trailing empty
\* cells dropped
RECURSIVE DropTrailingEmpty(_)
DropTrailingEmpty(row) ==
  IF row # <<>> /\ AsEmpty(row[Len(row)]) = Str(<<>>)
  THEN DropTrailingEmpty(SubSeq(row, 1, Len(row) - 1))
  ELSE row

MissingAsEmpty(row) ==
  LET r == DropTrailingEmpty(row) IN [c \in 1..Len(r) |-> AsEmpty(r[c])]

MissingCellIsEmptyCell(K) ==
  \A j \in RowIndices : \A i \in 0..(j - 1) :
    MissingAsEmpty(rows[i + 1]) = MissingAsEmpty(rows[j + 1]) =>
      /\ K[i] = K[j]
      /\ IF skipKey(K[j]) THEN j \notin duplicatesIndices
         ELSE j \in duplicatesIndices

\* C12: two rows that differ only in that one has missing cells where the
\* other has empty cells have the same key under both criteria, and the later
\* one is a repeat of the earlier: in the duplicate-index-set if the key is
\* non-empty, out of it if the key is empty.
C12_MissingCellIsEmptyCell ==
  (ScanDone /\ pc = "scan" /\ options.criteria \in {"row", "col1"}) =>
    MissingCellIsEmptyCell(KeysOf(rows))

HeaderTakesPart(K) ==
  /\ 0 \notin duplicatesIndices
  /\ (rows # <<>> /\ ~EmptyKeyAt(K, 0)) =>
       /\ \A i \in 1..(Len(rows) - 1) : K[i] = K[0] => i \in duplicatesIndices
       /\ sheetKind = "values" =>
            /\ finalSheet # <<>>
            /\ finalSheet[1] = rows[1]
            /\ Len(finalSheet) <=
                 Len(rows) - Cardinality({i \in 1..(Len(rows) - 1) : K[i] = K[0]})
       /\ sheetKind = "styled" =>
            /\ 0 \notin MarkedRows(finalSheet)
            /\ \A i \in 1..(Len(rows) - 1) :
                 K[i] = K[0] => i \in MarkedRows(finalSheet)

Cell(st, inc, call, full, day) ==
  [st |-> st, inc |-> inc, call |-> call, full |-> full, day |-> day]

\* line 95 with the comparison one off: dailyUsage.count > DAILY_LIMIT
quotaExceededStrict(count) == count > DAILY_LIMIT

\* line 95: dailyUsage.count >= DAILY_LIMIT
quotaExceeded(count) == count >= DAILY_LIMIT

\* lines 89-127: sheet.eachRow / row.eachCell over n string cells.  Each
\* callback runs to its first await before the next one starts: the quota
\* test, the increment and, below the warning mark, the generateContent call.
\* A callback whose sendQuotaAlert returns at once (line 35) resumes after the
\* synchronous part of the handler and calls generateContent then.
RECURSIVE eachCell(_, _, _)
eachCell(n, acc, day) ==
  IF n = 0 THEN acc
  ELSE IF quotaExceeded(acc.count)
  THEN eachCell(n - 1,
         [acc EXCEPT !.cells = Append(@, Cell("fallback", 0, 0, acc.count >= DAILY_LIMIT, day)),
                     !.usedFallback = TRUE], day)
  ELSE LET count == acc.count + 1
       IN IF count = WARNING_AT
          THEN IF alertSentToday
               THEN eachCell(n - 1,
                      [acc EXCEPT !.count = count,
                                  !.cells = Append(@, Cell("gemini", 1, 1, acc.count >= DAILY_LIMIT, day)),
                                  !.warning = TRUE], day)
               ELSE eachCell(n - 1,
                      [acc EXCEPT !.count = count,
                                  !.cells = Append(@, Cell("mail", 1, 0, acc.count >= DAILY_LIMIT, day))], day)
          ELSE eachCell(n - 1,
                 [acc EXCEPT !.count = count,
                             !.cells = Append(@, Cell("gemini", 1, 1, acc.count >= DAILY_LIMIT, day))], day)

\* the string cells whose correction has not been assigned yet
OpenCells(cells) == {c \in 1..Len(cells) : cells[c].st \in {"mail", "gemini"}}

NewRequest(pcOf) ==
  [pc |-> pcOf, cells |-> <<>>, warning |-> FALSE, usedFallback |-> FALSE,
   hdrWarning |-> FALSE, hdrFallback |-> FALSE, hdrOpen |-> -1, endOpen |-> -1]

\* lines 66-71: the counter and the flag start again on a new date
ResetIfNewDay ==
  IF dailyUsage.date # today
  THEN /\ dailyUsage' = [date |-> today, count |-> 0]
       /\ alertSentToday' = FALSE
  ELSE UNCHANGED <<dailyUsage, alertSentToday>>

\* lines 60-75: a request arrives; anything but POST is answered 405
Arrive(method) ==
  /\ Len(requests) < Cardinality(Clients)
  /\ IF method # "POST"
     THEN /\ requests' = Append(requests, NewRequest("405"))
          /\ UNCHANGED <<dailyUsage, alertSentToday>>
     ELSE /\ requests' = Append(requests, NewRequest("parsing"))
          /\ ResetIfNewDay
  /\ UNCHANGED <<today, alerts, dupVars, uiVars>>

\* lines 75-83: the form is parsed; an error or a missing file is answered 400
Parsed(r, outcome) ==
  /\ requests[r].pc = "parsing"
  /\ requests' = [requests EXCEPT ![r].pc = IF outcome = "ok" THEN "reading" ELSE "400"]
  /\ UNCHANGED <<today, dailyUsage, alertSentToday, alerts, dupVars, uiVars>>

\* the string cells of the requests read so far
RECURSIVE CellsInFlight(_)
CellsInFlight(rs) ==
  IF rs = <<>> THEN 0 ELSE Len(Head(rs).cells) + CellsInFlight(Tail(rs))

\* lines 83-141: the workbook is read, every cell callback is started, the
\* headers are decided and the write of the workbook is started
Corrected(r, n) ==
  /\ requests[r].pc = "reading"
  /\ CellsInFlight(requests) + n <= MaxCells
  /\ LET res == eachCell(n, [count |-> dailyUsage.count, cells |-> <<>>,
                             usedFallback |-> FALSE, warning |-> FALSE],
                         dailyUsage.date)
     IN /\ dailyUsage' = [dailyUsage EXCEPT !.count = res.count]
        /\ requests' = [requests EXCEPT
             ![r].pc = "writing",
             ![r].cells = res.cells,
             ![r].usedFallback = res.usedFallback,
             ![r].warning = res.warning,
             ![r].hdrWarning = FALSE,
             ![r].hdrFallback = res.usedFallback,
             ![r].hdrOpen = Cardinality(OpenCells(res.cells))]
  /\ UNCHANGED <<today, alertSentToday, alerts, dupVars, uiVars>>

\* lines 83, 144-147: readFile rejects
ReadFailed(r) ==
  /\ requests[r].pc = "reading"
  /\ requests' = [requests EXCEPT ![r].pc = "500"]
  /\ UNCHANGED <<today, dailyUsage, alertSentToday, alerts, dupVars, uiVars>>

\* lines 37-44, 102-113: sendMail resolves; the flag is set, the warning is
\* noted and generateContent is called
MailSent(r, c) ==
  /\ requests[r].cells[c].st = "mail"
  /\ alerts' = [alerts EXCEPT ![requests[r].cells[c].day] = @ + 1]
  /\ alertSentToday' = TRUE
  /\ requests' = [requests EXCEPT ![r].warning = TRUE,
                                  ![r].cells[c].st = "gemini",
                                  ![r].cells[c].call = @ + 1]
  /\ UNCHANGED <<today, dailyUsage, dupVars, uiVars>>

\* lines 37, 116-119: sendMail rejects; the catch takes the dictionary
MailFailed(r, c) ==
  /\ requests[r].cells[c].st = "mail"
  /\ requests' = [requests EXCEPT ![r].usedFallback = TRUE,
                                  ![r].cells[c].st = "fallback"]
  /\ UNCHANGED <<today, dailyUsage, alertSentToday, alerts, dupVars, uiVars>>

\* lines 113-114, 121-124: generateContent resolves
GeminiAnswered(r, c) ==
  /\ requests[r].cells[c].st = "gemini"
  /\ requests' = [requests EXCEPT ![r].cells[c].st = "fixed"]
  /\ UNCHANGED <<today, dailyUsage, alertSentToday, alerts, dupVars, uiVars>>

\* lines 113, 116-119: generateContent rejects
GeminiFailed(r, c) ==
  /\ requests[r].cells[c].st = "gemini"
  /\ requests' = [requests EXCEPT ![r].usedFallback = TRUE,
                                  ![r].cells[c].st = "fallback"]
  /\ UNCHANGED <<today, dailyUsage, alertSentToday, alerts, dupVars, uiVars>>

\* lines 141-142: the write resolves and the response ends
Written(r) ==
  /\ requests[r].pc = "writing"
  /\ requests' = [requests EXCEPT
       ![r].pc = "ended",
       ![r].endOpen = Cardinality(OpenCells(requests[r].cells))]
  /\ UNCHANGED <<today, dailyUsage, alertSentToday, alerts, dupVars, uiVars>>

\* lines 141, 144-147: the write rejects
WriteFailed(r) ==
  /\ requests[r].pc = "writing"
  /\ requests' = [requests EXCEPT ![r].pc = "500"]
  /\ UNCHANGED <<today, dailyUsage, alertSentToday, alerts, dupVars, uiVars>>

\* line 66: new Date() gives the next date
Midnight ==
  /\ today < MaxDays
  /\ today' = today + 1
  /\ UNCHANGED <<dailyUsage, alertSentToday, requests, alerts, dupVars, uiVars>>

\* lines 60-142 run for requests that are not followed step by step: their
\* cells bring the counter to the target, none of them to the warning mark
OtherRequests(target) ==
  /\ LET from == IF dailyUsage.date # today THEN 0 ELSE dailyUsage.count
     IN /\ from < target
        /\ ~(from < WARNING_AT /\ WARNING_AT <= target)
        /\ target <= DAILY_LIMIT
  /\ dailyUsage' = [date |-> today, count |-> target]
  /\ alertSentToday' = IF dailyUsage.date # today THEN FALSE ELSE alertSentToday
  /\ UNCHANGED <<today, requests, alerts, dupVars, uiVars>>

InitApi ==
  /\ ApiLoaded
  /\ UiMounted
  /\ file = <<>>
  /\ options = [criteria |-> "row", mode |-> "remove"]
  /\ rows = <<>>
  /\ seen = {}
  /\ duplicatesIndices = {}
  /\ idx = 0
  /\ pc = "start"
  /\ finalSheet = <<>>
  /\ sheetKind = "none"
  /\ error = "none"
  /\ run = 1
  /\ firstSheet = <<>>

NextApi ==
  \/ \E method \in {"POST", "GET"} : Arrive(method)
  \/ \E r \in 1..Len(requests) : \E outcome \in {"ok", "err", "nofile"} : Parsed(r, outcome)
  \/ \E r \in 1..Len(requests) : \E n \in 0..MaxCells : Corrected(r, n)
  \/ \E r \in 1..Len(requests) : ReadFailed(r)
  \/ \E r \in 1..Len(requests) : \E c \in 1..Len(requests[r].cells) : MailSent(r, c)
  \/ \E r \in 1..Len(requests) : \E c \in 1..Len(requests[r].cells) : MailFailed(r, c)
  \/ \E r \in 1..Len(requests) : \E c \in 1..Len(requests[r].cells) : GeminiAnswered(r, c)
  \/ \E r \in 1..Len(requests) : \E c \in 1..Len(requests[r].cells) : GeminiFailed(r, c)
  \/ \E r \in 1..Len(requests) : Written(r)
  \/ \E r \in 1..Len(requests) : WriteFailed(r)
  \/ Midnight
  \/ \E target \in {WARNING_AT - 1, DAILY_LIMIT - 1} : OtherRequests(target)

SpecApi == InitApi /\ [][NextApi]_vars

\* C14: under every interleaving the counter never exceeds DAILY_LIMIT, a
\* callback that called generateContent incremented the counter exactly once
\* before, and a callback that started with the counter at the limit took
\* the dictionary without a call and without an increment.
C14_QuotaHolds ==
  /\ dailyUsage.count <= DAILY_LIMIT
  /\ \A r \in 1..Len(requests) : \A c \in 1..Len(requests[r].cells) :
       LET cell == requests[r].cells[c]
       IN /\ cell.call <= 1
          /\ cell.call = 1 => cell.inc = 1
          /\ cell.st \in {"gemini", "fixed"} => cell.call = 1
          /\ cell.full => cell.st = "fallback" /\ cell.call = 0 /\ cell.inc = 0

\* the counter stands at the limit: the callback that brought it there called
\* generateContent, the next cell of the same sheet took the dictionary
C14_Witness ==
  /\ dailyUsage.count = DAILY_LIMIT
  /\ Len(requests) = 2
  /\ Len(requests[1].cells) = 1
  /\ requests[1].cells[1].inc = 1
  /\ Len(requests[2].cells) = 2
  /\ requests[2].pc = "writing"
  /\ requests[2].cells[1].st = "gemini"
  /\ requests[2].cells[1].call = 1
  /\ requests[2].cells[2].st = "fallback"
  /\ requests[2].cells[2].full

\* C17: the headers are decided and the workbook is written only after the
\* correction of every string cell of the request has completed: no cell
\* callback is open when the headers are set or when the response ends, and
\* the headers of an ended response tell the warning and the fallback use of
\* its corrections.
C17_WrittenAfterCorrections ==
  \A r \in 1..Len(requests) :
    LET req == requests[r]
    IN /\ req.pc \in {"writing", "ended"} => req.hdrOpen = 0
       /\ req.pc = "ended" =>
            /\ req.endOpen = 0
            /\ req.hdrWarning = req.warning
            /\ req.hdrFallback = req.usedFallback

\* the cell callbacks of the requests, as <<request, cell>> pairs
CellsOf == {rc \in (1..Len(requests)) \X (1..MaxCells + 1) :
              rc[2] <= Len(requests[rc[1]].cells)}

\* a sendMail of the date d is in flight
AlertInFlight(d) ==
  \E rc \in CellsOf :
    LET cell == requests[rc[1]].cells[rc[2]]
    IN cell.st = "mail" /\ cell.day = d

\* a sendMail of the date d was rejected: the callback incremented the
\* counter and took the dictionary without a generateContent call
AlertRejected(d) ==
  \E rc \in CellsOf :
    LET cell == requests[rc[1]].cells[rc[2]]
    IN cell.st = "fallback" /\ cell.inc = 1 /\ cell.call = 0 /\ cell.day = d

\* C18: on every date the alert is sent at most once, and once the counter
\* of the current date has reached WARNING_AT the alert of that date has been
\* sent or its send is in flight (or was rejected by the mail transport),
\* whatever send of an earlier date was in flight at the day reset.
C18_AlertOncePerDate ==
  /\ \A d \in 1..MaxDays : alerts[d] <= 1
  /\ dailyUsage.count >= WARNING_AT =>
       \/ alerts[dailyUsage.date] = 1
       \/ AlertInFlight(dailyUsage.date)
       \/ AlertRejected(dailyUsage.date)

\* ---------------------------------------------------------------------------
\* Workspace (src/unnamed/part_000): the component state, the click handlers
\* and processFile.  A handler runs to completion and the component renders
\* again before the next event: between two actions `rendered` holds the
\* dupOptions that the closures of the last render captured.
\* ---------------------------------------------------------------------------

\* files that can be selected at a time
MaxFiles == 2

\* lines 72-135: the cases of the switch on tool.id, and a tool without a case
BlobTools == {"jpg-to-pdf", "compress-pdf", "pdf-to-jpg", "excel-to-pdf",
              "clean-excel", "duplicate-remover"}
TwoStepTools == {"ai-menu-fixer", "ai-document-summary"}
Tools == BlobTools \cup TwoStepTools \cup {"pdf-img-to-excel", "in-development"}

\* lines 31-34: addFiles; tool.multiple appends, otherwise the files replace
\* the selection
AddFiles(n, multiple) ==
  /\ processing = "idle"
  /\ multiple => files + n <= MaxFiles
  /\ files' = IF multiple THEN files + n ELSE n
  /\ UNCHANGED <<dupOptions, rendered, tool, processing, uiPc, lastClick, calledWith,
                 dupVars, apiVars>>

\* lines 59-61, 211: removeFile and 'Clear all'
RemoveFiles(n) ==
  /\ processing = "idle"
  /\ files > 0
  /\ n <= files
  /\ files' = files - n
  /\ UNCHANGED <<dupOptions, rendered, tool, processing, uiPc, lastClick, calledWith,
                 dupVars, apiVars>>

\* lines 276, 280: the radio buttons of the detection logic
SetCriteria(criteria) ==
  /\ processing = "idle"
  /\ files > 0
  /\ tool = "duplicate-remover"
  /\ dupOptions' = [dupOptions EXCEPT !.criteria = criteria]
  /\ rendered' = dupOptions'
  /\ UNCHANGED <<tool, files, processing, uiPc, lastClick, calledWith, dupVars, apiVars>>

\* lines 63-135: processFile up to its first await, run by the handler of the
\* button `click` with the dupOptions `opts` of its closure
processFile(click, opts) ==
  IF files = 0
  THEN UNCHANGED <<processing, uiPc, lastClick, calledWith>>
  ELSE /\ processing' = IF tool = "in-development" THEN "error" ELSE "processing"
       /\ uiPc' = IF tool \in BlobTools THEN "last"
                  ELSE IF tool \in TwoStepTools THEN "first"
                  ELSE IF tool = "pdf-img-to-excel" THEN "reading"
                  ELSE "settled"
       /\ lastClick' = click
       /\ calledWith' = IF tool = "duplicate-remover" THEN opts.mode ELSE calledWith

\* lines 284-297: 'Delete Duplicates' and 'Highlight Rows'
ClickMode(mode) ==
  /\ processing = "idle"
  /\ files > 0
  /\ tool = "duplicate-remover"
  /\ dupOptions' = [dupOptions EXCEPT !.mode = mode]
  /\ rendered' = dupOptions'
  /\ processFile(mode, rendered)
  /\ UNCHANGED <<tool, files, dupVars, apiVars>>

\* line 302: 'Start Processing Now'
ClickStart ==
  /\ processing = "idle"
  /\ files > 0
  /\ processFile("start", rendered)
  /\ UNCHANGED <<dupOptions, rendered, tool, files, dupVars, apiVars>>

\* lines 75, 80, 85, 89, 93, 96, 139-147: the awaited conversion resolves;
\* lines 101-114, 130-133: an awaited step of the two-step tools resolves
AwaitResolved ==
  /\ uiPc \in {"first", "last"}
  /\ IF uiPc = "first"
     THEN /\ uiPc' = "last"
          /\ UNCHANGED processing
     ELSE /\ uiPc' = "settled"
          /\ processing' = "success"
  /\ UNCHANGED <<dupOptions, rendered, tool, files, lastClick, calledWith, dupVars, apiVars>>

\* lines 148-150: an awaited step rejects, or the code after it throws
AwaitRejected ==
  /\ uiPc \in {"first", "last"}
  /\ uiPc' = "settled"
  /\ processing' = "error"
  /\ UNCHANGED <<dupOptions, rendered, tool, files, lastClick, calledWith, dupVars, apiVars>>

\* lines 119-122: the FileReader fires load; onload runs to its await
ReaderLoaded ==
  /\ uiPc = "reading"
  /\ uiPc' = "extracting"
  /\ UNCHANGED <<dupOptions, rendered, tool, files, processing, lastClick, calledWith,
                 dupVars, apiVars>>

\* lines 118-119: the FileReader fires error; no handler is registered for it
ReaderFailed ==
  /\ uiPc = "reading"
  /\ uiPc' = "unread"
  /\ UNCHANGED <<dupOptions, rendered, tool, files, processing, lastClick, calledWith,
                 dupVars, apiVars>>

\* lines 122-124: aiExtractToExcel resolves and the sheet is exported
ExtractResolved ==
  /\ uiPc = "extracting"
  /\ uiPc' = "settled"
  /\ processing' = "success"
  /\ UNCHANGED <<dupOptions, rendered, tool, files, lastClick, calledWith, dupVars, apiVars>>

\* lines 120-125: aiExtractToExcel rejects or exportToExcel throws; the
\* promise of the onload callback is rejected and nobody handles it
ExtractRejected ==
  /\ uiPc = "extracting"
  /\ uiPc' = "unhandled"
  /\ UNCHANGED <<dupOptions, rendered, tool, files, processing, lastClick, calledWith,
                 dupVars, apiVars>>

\* line 346: 'Start New Task'
StartNewTask ==
  /\ processing = "success"
  /\ processing' = "idle"
  /\ files' = 0
  /\ uiPc' = "idle"
  /\ lastClick' = "none"
  /\ calledWith' = "none"
  /\ UNCHANGED <<dupOptions, rendered, tool, dupVars, apiVars>>

\* line 363: 'Try Again'
TryAgain ==
  /\ processing = "error"
  /\ processing' = "idle"
  /\ uiPc' = "idle"
  /\ lastClick' = "none"
  /\ calledWith' = "none"
  /\ UNCHANGED <<dupOptions, rendered, tool, files, dupVars, apiVars>>

InitUI ==
  /\ dupOptions = [criteria |-> "row", mode |-> "remove"]
  /\ rendered = dupOptions
  /\ tool \in Tools
  /\ files = 0
  /\ processing = "idle"
  /\ uiPc = "idle"
  /\ lastClick = "none"
  /\ calledWith = "none"
  /\ ApiLoaded
  /\ file = <<>>
  /\ options = [criteria |-> "row", mode |-> "remove"]
  /\ rows = <<>>
  /\ seen = {}
  /\ duplicatesIndices = {}
  /\ idx = 0
  /\ pc = "start"
  /\ finalSheet = <<>>
  /\ sheetKind = "none"
  /\ error = "none"
  /\ run = 1
  /\ firstSheet = <<>>

NextUI ==
  \/ \E n \in 1..MaxFiles : \E multiple \in BOOLEAN : AddFiles(n, multiple)
  \/ \E n \in 1..MaxFiles : RemoveFiles(n)
  \/ \E criteria \in {"row", "col1"} : SetCriteria(criteria)
  \/ \E mode \in {"remove", "highlight"} : ClickMode(mode)
  \/ ClickStart
  \/ AwaitResolved
  \/ AwaitRejected
  \/ ReaderLoaded
  \/ ReaderFailed
  \/ ExtractResolved
  \/ ExtractRejected
  \/ StartNewTask
  \/ TryAgain

SpecUI == InitUI /\ [][NextUI]_vars

\* C15: a run started by 'Highlight Rows' (by 'Delete Duplicates') calls
\* processDuplicates with the mode 'highlight' ('remove'), whatever mode
\* dupOptions held before the click.
C15_ClickDecidesMode ==
  lastClick \in {"remove", "highlight"} => calledWith = lastClick

\* C16: once a processFile started with at least one file has nothing left
\* to wait for, whatever its tool and whatever the outcome of its conversion,
\* file read or AI call, the status is 'success' or 'error'.
C16_StatusLeavesProcessing ==
  uiPc \in {"settled", "unread", "unhandled"} => processing \in {"success", "error"}

====
